---- MODULE Spec2Model ----
(***************************************************************************)
(* Model of django_netjsongraph/base/node.py (AbstractNode).               *)
(*                                                                         *)
(* A Python string is a sequence of one-character strings, so that         *)
(* replace / startswith / endswith / split / join are computed as the      *)
(* code computes them.  A Python list of strings is a sequence of such     *)
(* sequences.  An optional value is a sequence of length 0 (None / not     *)
(* set) or 1 (the value).                                                   *)
(***************************************************************************)
EXTENDS Naturals, Integers, Sequences, FiniteSets, TLC

VARIABLES
    addresses,              \* self.addresses of the node instance
    properties,             \* self.properties of the node instance (a mapping)
    cached_address_list,    \* instance __dict__ slot of cached_property address_list
    cached_local_addresses, \* instance __dict__ slot of cached_property local_addresses
    row,                    \* the instance's database row: <<>> before the first save
    op,                     \* the operation last invoked on the instance
    nodes,                  \* the node table: primary key -> row
    links,                  \* the link table: <<source, target>> pairs of node keys
    now,                    \* the clock, in days
    NODE_EXPIRATION,        \* settings.NODE_EXPIRATION
    LINK_EXPIRATION,        \* settings.LINK_EXPIRATION
    sweep_pc,               \* delete_expired_nodes: "idle", "deleting" or "done"
    expired_nodes,          \* delete_expired_nodes: the evaluated queryset
    sweep_i,                \* delete_expired_nodes: nodes of the queryset deleted so far
    expiration_date,        \* delete_expired_nodes: the cutoff it computed
    before,                 \* history: the tables when the running sweep started
    ret                     \* what the last call on the node table returned

node == <<addresses, properties, cached_address_list, cached_local_addresses, row>>
instance == <<node, op>>
tables == <<nodes, links, now>>
settings == <<NODE_EXPIRATION, LINK_EXPIRATION>>
sweep == <<sweep_pc, expired_nodes, sweep_i, expiration_date>>
database == <<tables, settings, sweep, before, ret>>
vars == <<instance, database>>

-----------------------------------------------------------------------------
(* Bounds *)

\* Longest raw address text handed to a node in the normalisation runs.
MaxRaw == 3

\* Longest address text handed to a node instance in the accessor runs.
MaxAddr == 3

\* Stand-in for the addresses field's max_length (510 in the source), scaled
\* down so that over-long values occur within MaxRaw / MaxAddr characters.
MaxLength == 3

\* Primary keys of the node table are 1..MaxNodes in the sweep runs and
\* 1..MaxLookupNodes in the lookup runs.
MaxNodes == 3
MaxLookupNodes == 2

\* Most rows of the link table.
MaxLinks == 1

\* The clock runs from day 0 to day MaxTime.
MaxTime == 2

\* Expiration thresholds are 1..MaxDays days, or disabled.
MaxDays == 1

\* Longest raw address text of a node row in the lookup runs, and longest
\* address looked up.
MaxDbRaw == 3
MaxLookup == 2

-----------------------------------------------------------------------------
(* Strings *)

None == <<>>
Some(v) == <<v>>

SeqsUpTo(S, n) == UNION {[1..k -> S] : k \in 0..n}

\* Characters of raw address input: an address character, the two
\* delimiters, a space and a tab.
RawChars == {"a", ",", ";", " ", "\t"}
RawInputs == SeqsUpTo(RawChars, MaxRaw)

\* Characters of the address text used in the accessor runs.
AddrChars == {"a", ";"}
AddrInputs == SeqsUpTo(AddrChars, MaxAddr)

\* Python's whitespace characters among the modelled ones.
Whitespace == {" ", "\t"}

startswith(s, c) == Len(s) > 0 /\ s[1] = c
endswith(s, c) == Len(s) > 0 /\ s[Len(s)] = c

\* str.replace(old, new) for a one-character old and a string new.
RECURSIVE replace(_, _, _)
replace(s, old, new) ==
    IF s = <<>> THEN <<>>
    ELSE (IF Head(s) = old THEN new ELSE <<Head(s)>>) \o replace(Tail(s), old, new)

\* str.split(sep): always at least one segment ("".split(';') == ['']).
RECURSIVE split(_, _)
split(s, sep) ==
    IF \A i \in 1..Len(s) : s[i] # sep THEN <<s>>
    ELSE LET i == CHOOSE j \in 1..Len(s) :
                      s[j] = sep /\ \A k \in 1..(j - 1) : s[k] # sep
         IN <<SubSeq(s, 1, i - 1)>> \o split(SubSeq(s, i + 1, Len(s)), sep)

\* sep.join(list)
RECURSIVE join(_, _)
join(list, sep) ==
    IF list = <<>> THEN <<>>
    ELSE IF Len(list) = 1 THEN list[1]
    ELSE list[1] \o <<sep>> \o join(Tail(list), sep)

\* list.pop(): the list without its last element.
pop(list) == SubSeq(list, 1, Len(list) - 1)

-----------------------------------------------------------------------------
(* AbstractNode: normalisation *)

\* Faulty variant of _format_addresses: the trailing ';' is appended without
\* the endswith test.
FormatAlwaysAppends(s) ==
    LET r == replace(replace(replace(s, ",", <<";">>), " ", <<>>), ";", <<";">>)
        p == IF startswith(r, ";") THEN r ELSE <<";">> \o r
    IN p \o <<";">>

\* _format_addresses: the value it assigns to self.addresses.
_format_addresses(s) ==
    LET r == replace(replace(replace(s, ",", <<";">>), " ", <<>>), ";", <<";">>)
        p == IF startswith(r, ";") THEN r ELSE <<";">> \o r
    IN IF endswith(p, ";") THEN p ELSE p \o <<";">>

\* The address_list computation on an addresses value.
address_list_of(s) ==
    LET t == replace(s, " ", <<>>)
        u == IF startswith(t, ";") THEN Tail(t) ELSE t
    IN split(SubSeq(u, 1, Len(u) - 1), ";")

\* truncate_addresses' loop: pop the last address while the joined list plus
\* the two bounding delimiters is too long.  (list.pop() on an empty list
\* would raise; with MaxLength >= 2 the loop stops before that.)
RECURSIVE drop_trailing(_)
drop_trailing(list) ==
    IF Len(list) > 0 /\ Len(join(list, ";")) + 2 > MaxLength
    THEN drop_trailing(pop(list))
    ELSE list

-----------------------------------------------------------------------------
(* AbstractNode: derived accessors, as values read in the current state *)

\* self.address_list: the cached list when the slot is filled, else computed.
AddressList ==
    IF Len(cached_address_list) > 0 THEN cached_address_list[1]
    ELSE address_list_of(addresses)

\* self.netjson_id raises IndexError when the (cached) list is empty.
NetjsonIdRaises == Len(addresses) > 0 /\ Len(AddressList) = 0

\* self.netjson_id: Some(first address), or None.
NetjsonId ==
    IF Len(addresses) > 0 /\ Len(AddressList) > 0 THEN Some(AddressList[1]) ELSE None

\* The body of local_addresses, run when its slot is empty.
LocalAddressesBody ==
    IF Len(addresses) > 0 /\ Len(AddressList) > 1 THEN Some(Tail(AddressList)) ELSE None

\* self.local_addresses: Some(list of the other addresses), or None.
LocalAddresses ==
    IF Len(cached_local_addresses) > 0 THEN cached_local_addresses[1]
    ELSE LocalAddressesBody

\* The address_list slot after an expression `self.addresses and ...address_list...`.
SlotAfterGuardedRead ==
    IF Len(addresses) > 0 THEN Some(AddressList) ELSE cached_address_list

-----------------------------------------------------------------------------
(* AbstractNode: mappings (self.properties) *)

EmptyDict == [k \in {} |-> "v"]
dict_set(m, k, v) == [x \in DOMAIN m \cup {k} |-> IF x = k THEN v ELSE m[x]]

\* Values a caller assigns to properties.
UserProperties == {EmptyDict, [k \in {"x"} |-> "v"]}

\* self.created and self.modified of the instance (set by the persistence layer).
created == "created_ts"
modified == "modified_ts"

-----------------------------------------------------------------------------
(* AbstractNode: operations on one node instance *)

\* node.addresses = raw
set_addresses(S) ==
    /\ op' = "set_addresses"
    /\ UNCHANGED database
    /\ \E raw \in S : addresses' = raw
    /\ UNCHANGED <<properties, cached_address_list, cached_local_addresses, row>>

\* node.properties = mapping
set_properties ==
    /\ op' = "set_properties"
    /\ UNCHANGED database
    /\ \E m \in UserProperties : properties' = m
    /\ UNCHANGED <<addresses, cached_address_list, cached_local_addresses, row>>

\* save(): normalise, then write the row.
save ==
    /\ op' = "save"
    /\ UNCHANGED database
    /\ addresses' = _format_addresses(addresses)
    /\ row' = Some([addresses |-> addresses', properties |-> properties])
    /\ UNCHANGED <<properties, cached_address_list, cached_local_addresses>>

\* Faulty variant of truncate_addresses: the loop forgets the two bounding
\* delimiters (no + 2).
TruncateWithoutDelimiters ==
    /\ op' = "truncate_addresses"
    /\ UNCHANGED database
    /\ IF Len(addresses) <= MaxLength
       THEN UNCHANGED node
       ELSE LET RECURSIVE drop(_)
                drop(list) == IF Len(list) > 0 /\ Len(join(list, ";")) > MaxLength
                              THEN drop(pop(list)) ELSE list
                kept == drop(AddressList)
            IN /\ addresses' = join(kept, ";")
               /\ cached_address_list' = Some(kept)
               /\ UNCHANGED <<properties, cached_local_addresses, row>>

\* truncate_addresses(): the list popped is the cached list object itself.
truncate_addresses ==
    /\ op' = "truncate_addresses"
    /\ UNCHANGED database
    /\ IF Len(addresses) <= MaxLength
       THEN UNCHANGED node
       ELSE LET kept == drop_trailing(AddressList)
            IN /\ addresses' = join(kept, ";")
               /\ cached_address_list' = Some(kept)
               /\ UNCHANGED <<properties, cached_local_addresses, row>>

\* A read of node.address_list (cached_property).
get_address_list ==
    /\ op' = "get_address_list"
    /\ UNCHANGED database
    /\ cached_address_list' = Some(AddressList)
    /\ UNCHANGED <<addresses, properties, cached_local_addresses, row>>

\* A read of node.netjson_id (property).
get_netjson_id ==
    /\ op' = "get_netjson_id"
    /\ UNCHANGED database
    /\ cached_address_list' = SlotAfterGuardedRead
    /\ UNCHANGED <<addresses, properties, cached_local_addresses, row>>

\* A read of node.local_addresses (cached_property).
get_local_addresses ==
    /\ op' = "get_local_addresses"
    /\ UNCHANGED database
    /\ IF Len(cached_local_addresses) > 0
       THEN UNCHANGED node
       ELSE /\ cached_local_addresses' = Some(LocalAddressesBody)
            /\ cached_address_list' = SlotAfterGuardedRead
            /\ UNCHANGED <<addresses, properties, row>>

\* json(): reads netjson_id and local_addresses, then writes 'created' and
\* 'modified' into netjson['properties'], which is the object self.properties.
json ==
    /\ op' = "json"
    /\ UNCHANGED database
    /\ IF NetjsonIdRaises
       THEN UNCHANGED node
       ELSE /\ cached_address_list' = SlotAfterGuardedRead
            /\ cached_local_addresses' =
                   IF Len(cached_local_addresses) > 0 THEN cached_local_addresses
                   ELSE Some(LocalAddressesBody)
            /\ properties' = dict_set(dict_set(properties, "created", created),
                                      "modified", modified)
            /\ UNCHANGED <<addresses, row>>

-----------------------------------------------------------------------------
(* The node table: lookups *)

NodeIds == 1..MaxNodes
LookupNodeIds == 1..MaxLookupNodes
Topologies == {1, 2}

\* Raw address text of the rows, and the addresses looked up (not empty, no
\* delimiter).
DbRawInputs == SeqsUpTo({"a", ";"}, MaxDbRaw)
LookupAddresses == SeqsUpTo({"a"}, MaxLookup) \ {<<>>}

NoRows == [n \in {} |-> 0]
put(table, n, r) == [x \in DOMAIN table \cup {n} |-> IF x = n THEN r ELSE table[x]]
remove(table, n) == [x \in DOMAIN table \ {n} |-> table[x]]

Min(S) == CHOOSE m \in S : \A x \in S : m <= x

\* A set of primary keys as the list a queryset yields (ordered by key).
RECURSIVE ordered(_)
ordered(S) == IF S = {} THEN <<>> ELSE <<Min(S)>> \o ordered(S \ {Min(S)})

\* addresses__contains: sub is a substring of s.
contains(s, sub) ==
    \E i \in 0..(Len(s) - Len(sub)) : SubSeq(s, i + 1, i + Len(sub)) = sub

\* Faulty variant of address_filter: the address is looked up without its
\* bounding delimiters.
FilterUnbounded(address, topology) ==
    {n \in DOMAIN nodes :
        nodes[n].topology = topology /\ contains(nodes[n].addresses, address)}

\* cls.objects.filter(topology=topology, addresses__contains=';{0};'.format(address))
address_filter(address, topology) ==
    {n \in DOMAIN nodes :
        /\ nodes[n].topology = topology
        /\ contains(nodes[n].addresses, <<";">> \o address \o <<";">>)}

NoReturn == [op |-> "none", address |-> <<>>, topology |-> 0, node |-> None, count |-> 0]

\* Node(topology=t, addresses=raw).save() for a new key, or an update of the
\* row with key n: the row holds the normalised addresses and is stamped now.
node_save(n, T, R) ==
    /\ \E t \in T, raw \in R :
          nodes' = put(nodes, n, [topology |-> t,
                                  addresses |-> _format_addresses(raw),
                                  modified |-> now])
    /\ ret' = [NoReturn EXCEPT !.op = "save"]
    /\ UNCHANGED <<links, now, settings, sweep, before, instance>>

\* get_from_address: the first match (by key), or None.
get_from_address(address, topology) ==
    /\ ret' = [op |-> "get_from_address", address |-> address, topology |-> topology,
               node |-> LET m == address_filter(address, topology)
                        IN IF m = {} THEN None ELSE Some(Min(m)),
               count |-> 0]
    /\ UNCHANGED <<tables, settings, sweep, before, instance>>

\* count_address: the number of matches.
count_address(address, topology) ==
    /\ ret' = [op |-> "count_address", address |-> address, topology |-> topology,
               node |-> None,
               count |-> Cardinality(address_filter(address, topology))]
    /\ UNCHANGED <<tables, settings, sweep, before, instance>>

-----------------------------------------------------------------------------
(* The node table: expiration sweep *)

\* A setting is False, None or a positive number of days.
Off == {[kind |-> "False", days |-> 0], [kind |-> "None", days |-> 0]}
ExpirationSettings == Off \cup {[kind |-> "int", days |-> d] : d \in 1..MaxDays}

\* `X not in [False, None]`
enabled(x) == x \notin Off

unlinked(n, L) == \A l \in L : l[1] # n /\ l[2] # n

\* Faulty variant of expired_query: modified__lte instead of modified__lt.
ExpiredUpToCutoff(date) ==
    {n \in DOMAIN nodes : nodes[n].modified <= date /\ unlinked(n, links)}

\* filter(modified__lt=expiration_date, source_link_set__isnull=True,
\*        target_link_set__isnull=True)
expired_query(date) ==
    {n \in DOMAIN nodes : nodes[n].modified < date /\ unlinked(n, links)}

\* delete_expired_nodes up to the evaluation of the queryset (len()).
sweep_select ==
    /\ sweep_pc = "idle"
    /\ sweep_i' = 0
    /\ IF enabled(NODE_EXPIRATION) /\ enabled(LINK_EXPIRATION)
       THEN LET date == now - NODE_EXPIRATION.days
                found == ordered(expired_query(date))
            IN /\ expiration_date' = date
               /\ expired_nodes' = found
               /\ sweep_pc' = IF Len(found) > 0 THEN "deleting" ELSE "done"
       ELSE /\ sweep_pc' = "done"
            /\ UNCHANGED <<expiration_date, expired_nodes>>
    /\ ret' = NoReturn
    /\ UNCHANGED <<tables, settings, instance>>

\* One round of `for node in expired_nodes: node.delete()`.  The rows of the
\* link table that reference the node go with it (the relational layer's
\* cascade).
sweep_delete ==
    /\ sweep_pc = "deleting"
    /\ LET n == expired_nodes[sweep_i + 1]
       IN /\ nodes' = remove(nodes, n)
          /\ links' = {l \in links : l[1] # n /\ l[2] # n}
    /\ sweep_i' = sweep_i + 1
    /\ sweep_pc' = IF sweep_i + 1 = Len(expired_nodes) THEN "done" ELSE "deleting"
    /\ UNCHANGED <<now, settings, expired_nodes, expiration_date, ret, instance>>

\* delete_expired_nodes returns: its locals are gone.
sweep_return ==
    /\ sweep_pc = "done"
    /\ sweep_pc' = "idle"
    /\ expired_nodes' = <<>>
    /\ sweep_i' = 0
    /\ expiration_date' = 0
    /\ UNCHANGED <<tables, settings, ret, instance>>

\* A writer adds a link between two nodes.
link_create ==
    /\ Cardinality(links) < MaxLinks
    /\ \E s \in DOMAIN nodes, t \in DOMAIN nodes :
          /\ s # t
          /\ <<s, t>> \notin links
          /\ links' = links \cup {<<s, t>>}
    /\ UNCHANGED <<nodes, now, settings, sweep, before, ret, instance>>

\* A writer removes a link.
link_delete ==
    /\ \E l \in links : links' = links \ {l}
    /\ UNCHANGED <<nodes, now, settings, sweep, before, ret, instance>>

\* A day passes.
tick ==
    /\ now < MaxTime
    /\ now' = now + 1
    /\ UNCHANGED <<nodes, links, settings, sweep, before, ret, instance>>

\* A writer creates or touches a node.
node_touch == \E n \in NodeIds : node_save(n, {1}, {<<"a">>})

-----------------------------------------------------------------------------
(* Specifications *)

NewNode(S) ==
    /\ addresses \in S
    /\ properties = EmptyDict
    /\ cached_address_list = None
    /\ cached_local_addresses = None
    /\ row = None
    /\ op = "new"

NoSweep ==
    /\ sweep_pc = "idle"
    /\ expired_nodes = <<>>
    /\ sweep_i = 0
    /\ expiration_date = 0
    /\ before = [nodes |-> NoRows, links |-> {}]
    /\ ret = NoReturn

\* The settings of the runs that do not sweep.
DefaultSettings ==
    /\ NODE_EXPIRATION = [kind |-> "False", days |-> 0]
    /\ LINK_EXPIRATION = [kind |-> "False", days |-> 0]

EmptyDatabase ==
    /\ nodes = NoRows
    /\ links = {}
    /\ now = 0
    /\ NoSweep

\* Normalisation: raw address text of every shape, assigned and saved.
InitFormat == NewNode(RawInputs) /\ EmptyDatabase /\ DefaultSettings
NextFormat == set_addresses(RawInputs) \/ save
SpecFormat == InitFormat /\ [][NextFormat]_vars

\* Accessors and truncation on one instance.
Init == NewNode(AddrInputs) /\ EmptyDatabase /\ DefaultSettings
Next ==
    \/ set_addresses(AddrInputs)
    \/ save
    \/ truncate_addresses
    \/ get_address_list
    \/ get_netjson_id
    \/ get_local_addresses
Spec == Init /\ [][Next]_vars

\* Serialisation.
InitJson == NewNode(AddrInputs) /\ EmptyDatabase /\ DefaultSettings
NextJson == set_properties \/ json \/ save
SpecJson == InitJson /\ [][NextJson]_vars

\* Tables of saved nodes: every row holds a normalised addresses value and
\* was stamped no later than now.
SavedRows(T, R) ==
    {[topology |-> t, addresses |-> _format_addresses(raw), modified |-> m] :
        t \in T, raw \in R, m \in 0..now}
NodeTables(ids, T, R) == UNION {[S -> SavedRows(T, R)] : S \in SUBSET ids}

\* Lookups on a table of saved nodes.
InitLookup ==
    /\ NewNode({<<>>})
    /\ DefaultSettings
    /\ now = 0
    /\ links = {}
    /\ nodes \in NodeTables(LookupNodeIds, Topologies, DbRawInputs)
    /\ NoSweep
NextLookup ==
    \/ \E a \in LookupAddresses, t \in Topologies : get_from_address(a, t)
    \/ \E a \in LookupAddresses, t \in Topologies : count_address(a, t)
SpecLookup == InitLookup /\ [][NextLookup]_vars

\* Link tables over the nodes of a table.
LinkTables(ids) ==
    {L \in SUBSET {l \in ids \X ids : l[1] # l[2]} : Cardinality(L) <= MaxLinks}

\* One sweep at a time over any table, with no concurrent writer.
InitSweep ==
    /\ NewNode({<<>>})
    /\ NODE_EXPIRATION \in ExpirationSettings
    /\ LINK_EXPIRATION \in ExpirationSettings
    /\ now \in 0..MaxTime
    /\ nodes \in NodeTables(NodeIds, {1}, {<<"a">>})
    /\ links \in LinkTables(DOMAIN nodes)
    /\ NoSweep
NextSweep ==
    \/ sweep_select /\ before' = [nodes |-> nodes, links |-> links]
    \/ sweep_delete /\ UNCHANGED before
    \/ sweep_return /\ UNCHANGED before
SpecSweep == InitSweep /\ [][NextSweep]_vars

\* The sweep with writers acting at any time.
InitSweepConcurrent ==
    /\ NewNode({<<>>})
    /\ NODE_EXPIRATION \in ExpirationSettings
    /\ LINK_EXPIRATION \in ExpirationSettings
    /\ EmptyDatabase
NextSweepConcurrent ==
    \/ sweep_select /\ UNCHANGED before
    \/ sweep_delete /\ UNCHANGED before
    \/ sweep_return /\ UNCHANGED before
    \/ node_touch
    \/ link_create
    \/ link_delete
    \/ tick
SpecSweepConcurrent == InitSweepConcurrent /\ [][NextSweepConcurrent]_vars

-----------------------------------------------------------------------------
(* Properties of one node instance *)

\* s is in the form ";addr1;...;addrN;": bounded by ';', no comma, no whitespace.
IsCanonical(s) ==
    /\ startswith(s, ";")
    /\ endswith(s, ";")
    /\ \A i \in 1..Len(s) : s[i] # "," /\ s[i] \notin Whitespace

\* The instance holds what its row holds: it was saved and not changed since.
InSync == Len(row) > 0 /\ row[1].addresses = addresses

\* The addresses of an unbounded joined value ("" holds none).
Segments(s) == IF s = <<>> THEN <<>> ELSE split(s, ";")

IsPrefix(p, l) == Len(p) <= Len(l) /\ \A i \in 1..Len(p) : p[i] = l[i]

\* C1: after any sequence of saves of arbitrary raw input, the stored
\* addresses value starts with ';', ends with ';', and contains no comma and
\* no whitespace character (space, tab, ...).
C1_StoredCanonical == Len(row) > 0 => IsCanonical(row[1].addresses)

C5_NetjsonIdNonEmpty ==
    InSync =>
        /\ ~NetjsonIdRaises
        /\ Len(addresses) > 0 => Len(NetjsonId) = 1
        /\ Len(NetjsonId) = 1 => Len(NetjsonId[1]) > 0

\* C6: truncate_addresses, called at any point on a node whose normalised
\* addresses value is longer than the maximum, leaves a value of at most the
\* maximum length whose addresses are a prefix of the address list of the
\* value held immediately before the call.
C6_TruncationLaw ==
    [][(/\ op' = "truncate_addresses"
        /\ _format_addresses(addresses) = addresses
        /\ Len(addresses) > MaxLength)
          => /\ Len(addresses') <= MaxLength
             /\ IsPrefix(Segments(addresses'), address_list_of(addresses))]_vars

\* C7: normalisation is idempotent: what save stores is a fixed point of
\* _format_addresses, saving a node unchanged since its last save leaves the
\* stored addresses as they are, and a canonical value is stored unchanged.
C7_Idempotent ==
    [][op' = "save" =>
          /\ _format_addresses(addresses') = addresses'
          /\ InSync => row'[1].addresses = row[1].addresses
          /\ IsCanonical(addresses) => addresses' = addresses]_vars

\* A node saved from raw text with a comma or a space, in sync with its row
\* and holding two addresses.
C7_Witness ==
    /\ op = "save"
    /\ InSync
    /\ IsCanonical(addresses)
    /\ Len(address_list_of(addresses)) = 2
    /\ Len(address_list_of(addresses)[1]) > 0

\* C8: json() leaves the node's properties mapping as it was: the injected
\* 'created' and 'modified' keys are in the output only.
C8_JsonKeepsProperties == [][op' = "json" => properties' = properties]_vars

\* C9: whatever was assigned, saved, truncated or read before, the accessors
\* return what the current addresses value gives: address_list its split,
\* netjson_id its first element, local_addresses the rest (None when there
\* is at most one).
C9_AccessorsPure ==
    LET list == address_list_of(addresses)
    IN /\ AddressList = list
       /\ ~NetjsonIdRaises
       /\ NetjsonId = (IF Len(addresses) > 0 THEN Some(list[1]) ELSE None)
       /\ LocalAddresses =
              (IF Len(addresses) > 0 /\ Len(list) > 1 THEN Some(Tail(list)) ELSE None)

-----------------------------------------------------------------------------
(* Properties of the node table *)

\* The nodes of a topology whose address list holds the address as a whole
\* element.
WholeAddressMatches(address, topology) ==
    {n \in DOMAIN nodes :
        /\ nodes[n].topology = topology
        /\ \E i \in 1..Len(address_list_of(nodes[n].addresses)) :
              address_list_of(nodes[n].addresses)[i] = address}

\* C3: on canonical rows and for a delimiter-free address, get_from_address
\* returns the first node of the topology whose address list holds the
\* address as a whole element, None when there is none, and count_address
\* counts exactly those nodes.
C3_LookupWholeAddress ==
    LET w == WholeAddressMatches(ret.address, ret.topology)
    IN /\ ret.op = "get_from_address" =>
             ret.node = (IF w = {} THEN None ELSE Some(Min(w)))
       /\ ret.op = "count_address" => ret.count = Cardinality(w)

\* A lookup of "a" that returns None although a node of the topology holds
\* an address of which "a" is a proper substring, while another topology
\* holds "a" itself.
C3_Witness ==
    /\ ret.op = "get_from_address"
    /\ ret.address = <<"a">>
    /\ ret.node = None
    /\ \E n \in DOMAIN nodes :
          nodes[n].topology = ret.topology /\ nodes[n].addresses = <<";", "a", "a", ";">>
    /\ \E n \in DOMAIN nodes :
          nodes[n].topology # ret.topology /\ nodes[n].addresses = <<";", "a", ";">>

\* The nodes of the table the sweep started on that it is to delete.
Expired ==
    {n \in DOMAIN before.nodes :
        /\ enabled(NODE_EXPIRATION)
        /\ enabled(LINK_EXPIRATION)
        /\ before.nodes[n].modified < now - NODE_EXPIRATION.days
        /\ unlinked(n, before.links)}

\* C2: with no concurrent writer, a finished run has deleted exactly the nodes
\* that were unlinked and modified strictly before now - NODE_EXPIRATION days,
\* and none when either setting is False or None; every other node is still
\* there with its row unchanged.
C2_SweepDeletesExactlyExpired ==
    sweep_pc = "done" =>
        nodes = [n \in DOMAIN before.nodes \ Expired |-> before.nodes[n]]

\* A finished run that deleted a node and kept a linked node of the same age.
C2_Witness ==
    /\ sweep_pc = "done"
    /\ \E d \in DOMAIN before.nodes \ DOMAIN nodes, k \in DOMAIN nodes :
          /\ nodes[k].modified = before.nodes[d].modified
          /\ ~unlinked(k, links)

\* C10: whatever writers do meanwhile, a node the sweep deletes is, when it
\* is deleted, referenced by no link and modified strictly before the cutoff.
C10_DeletesOnlyExpiredUnlinked ==
    [][sweep_i' = sweep_i + 1 =>
          LET n == expired_nodes[sweep_i + 1]
          IN n \in DOMAIN nodes =>
                /\ unlinked(n, links)
                /\ nodes[n].modified < expiration_date]_vars

====
